---- MODULE Spec2Model ----
(***************************************************************************)
(* ResumeGrader upload form.  The repository holds three revisions of the  *)
(* same React component App:                                               *)
(*   "App.jsx"  : src/src/App.jsx                                          *)
(*   "part_000" : src/unnamed/part_000                                     *)
(*   "part_001" : src/unnamed/part_001                                     *)
(* The model runs one of them (variable rev) and follows its hooks state   *)
(* (files, response, loading), the requests handed to axios.post and the   *)
(* outcome of every render.                                                *)
(***************************************************************************)
EXTENDS Integers, Sequences, FiniteSets, TLC

(***************************************************************************)
(* Bounds                                                                  *)
(***************************************************************************)
MaxSubmits == 2        \* submit clicks followed in one behaviour

(***************************************************************************)
(* JavaScript values.  Every value is a tagged record so that values of    *)
(* different JavaScript types can be compared.                             *)
(***************************************************************************)
Undef == [t |-> "undefined"]
Null == [t |-> "null"]
Num(n) == [t |-> "num", n |-> n]
Str(s) == [t |-> "str", s |-> s]
Arr(e) == [t |-> "arr", e |-> e]
Obj(f) == [t |-> "obj", f |-> f]
File(name) == [t |-> "file", name |-> name]
FileList(e) == [t |-> "filelist", l |-> e]

\* JavaScript ToBoolean
Truthy(v) ==
  CASE v.t = "undefined" -> FALSE
    [] v.t = "null" -> FALSE
    [] v.t = "num" -> v.n # 0
    [] v.t = "str" -> v.s # ""
    [] OTHER -> TRUE

\* o.k for an o that is neither null nor undefined
Get(o, k) ==
  IF o.t = "obj" /\ k \in DOMAIN o.f THEN o.f[k] ELSE Undef

\* o.k throws a TypeError
GetThrows(o) == o.t \in {"undefined", "null"}

\* o?.k
OptGet(o, k) == IF GetThrows(o) THEN Undef ELSE Get(o, k)

\* v.length > 0
LengthPositive(v) ==
  CASE v.t = "arr" -> Len(v.e) > 0
    [] v.t = "str" -> Len(v.s) > 0
    [] v.t = "obj" -> LET n == Get(v, "length") IN n.t = "num" /\ n.n > 0
    [] OTHER -> FALSE

\* String(v), as template literals and FormData.append convert a value
JSString(v) ==
  CASE v.t = "undefined" -> "undefined"
    [] v.t = "null" -> "null"
    [] v.t = "num" -> ToString(v.n)
    [] v.t = "str" -> v.s
    [] v.t = "filelist" -> "[object FileList]"
    [] v.t = "file" -> "[object File]"
    [] OTHER -> "[object Object]"

\* a || b
Or(a, b) == IF Truthy(a) THEN a ELSE b

(***************************************************************************)
(* Inputs                                                                  *)
(***************************************************************************)
Revisions == {"App.jsx", "part_000", "part_001"}

\* import.meta.env.VITE_API_URL: not set, set to the empty string, or set
EnvValues == {Undef, Str(""), Str("https://api.example.com")}

\* what the file picker hands to onChange in e.target.files: the input has no
\* "multiple" attribute, so the list is empty (dialog cancelled) or holds one
\* file; accept='.pdf' is only a hint, another file can be picked
Picks == {<<>>, <<File("cv.pdf")>>, <<File("notes.txt")>>}

\* the scores that occur in responses
Scores == {0, 72}
ScoreVals == {Num(n) : n \in Scores}
SectionNames == {"personal_info", "experience", "education", "skills", "projects"}

\* the object JSON.parse builds from the members m that are present
ObjOf(m) == Obj([k \in {x \in DOMAIN m : m[x] # Undef} |-> m[k]])

SectionScoreObjs ==
  {ObjOf([k \in {s} |-> v]) : s \in SectionNames, v \in ScoreVals}
    \cup {ObjOf([k \in SectionNames |-> Num(72)]), Obj(<<>>)}

PersonalInfo == ObjOf([name |-> Str("Asha"), email |-> Str("a@x.io"), phone |-> Str("1")])
Skills == Arr(<<Str("js"), Str("tla")>>)
Projects == Arr(<<ObjOf([name |-> Str("grader"), technologies |-> Arr(<<Str("react")>>)])>>)
Experience == Arr(<<ObjOf([position |-> Str("dev"), company |-> Str("acme")])>>)
Education == Arr(<<ObjOf([institution |-> Str("iit"), degree |-> Str("bsc")])>>)
Tips == Arr(<<Str("add metrics")>>)

ParsedDatas ==
  { ObjOf([personal_info |-> PersonalInfo]),
    ObjOf([skills |-> Skills, projects |-> Projects, experience |-> Experience]),
    ObjOf([personal_info |-> PersonalInfo, education |-> Education, skills |-> Arr(<<>>)]),
    Obj(<<>>) }

\* the bodies the grading service answers with; no member is mandatory
Bodies ==
  { ObjOf([grading_result |-> ObjOf([overall_score |-> ov, section_scores |-> ss])]) :
      ov \in ScoreVals \cup {Undef},
      ss \in {Undef, ObjOf([k \in SectionNames |-> Num(72)])} }
  \cup
  { ObjOf([grading_result |-> ObjOf([overall_score |-> Num(72), section_scores |-> ss])]) :
      ss \in SectionScoreObjs }
  \cup
  { ObjOf([grading_result |-> gr, parsed_data |-> pd]) :
      gr \in { Undef,
               ObjOf([overall_score |-> Num(72), strengths |-> Tips, tips |-> Tips,
                      detailed_feedback |-> Str("ok")]) },
      pd \in ParsedDatas }
  \cup
  { ObjOf([score |-> Num(72), tips |-> Tips]), ObjOf([score |-> Num(72)]), Null }

\* the error axios.post rejects with: no response at all, or a non-2xx status
Errors ==
  { ObjOf([name |-> Str("AxiosError"), code |-> Str("ERR_NETWORK")]),
    ObjOf([name |-> Str("AxiosError"), code |-> Str("ERR_BAD_RESPONSE"),
           response |-> ObjOf([status |-> Num(500)])]) }

(***************************************************************************)
(* Rendering.  React renders a number or a string child as its text,       *)
(* undefined, null and booleans as nothing, an array child element by      *)
(* element, and throws on a plain object child.  A throw during render,    *)
(* with no error boundary in the tree, unmounts the whole page.            *)
(***************************************************************************)
RECURSIVE ChildThrows(_)
ChildThrows(v) ==
  CASE v.t = "obj" -> TRUE
    [] v.t = "arr" -> \E i \in 1..Len(v.e) : ChildThrows(v.e[i])
    [] OTHER -> FALSE

RECURSIVE ConcatText(_, _)
RECURSIVE Text(_)
Text(v) ==
  CASE v.t = "num" -> ToString(v.n)
    [] v.t = "str" -> v.s
    [] v.t = "arr" -> ConcatText(v.e, 1)
    [] OTHER -> ""
ConcatText(e, i) == IF i > Len(e) THEN "" ELSE Text(e[i]) \o ConcatText(e, i + 1)

\* v && v.length > 0
ListShown(v) == Truthy(v) /\ LengthPositive(v)

\* v.map((x, i) => <li key={i}>{x}</li>) throws: v has no map, or an element
\* is not a valid child
MapChildThrows(v) ==
  v.t # "arr" \/ \E i \in 1..Len(v.e) : ChildThrows(v.e[i])

\* some member among ks of o is not a valid child
AnyChildThrows(o, ks) == \E k \in ks : ChildThrows(Get(o, k))

\* ---- src/src/App.jsx ----
Panel_App_jsx(resp) == Truthy(resp)

Throws_App_jsx(resp) ==
  /\ Truthy(resp)
  /\ \/ ChildThrows(Get(resp, "score"))
     \/ GetThrows(Get(resp, "tips"))
     \/ MapChildThrows(Get(resp, "tips"))

Disabled_App_jsx(f, l) == FALSE

\* ---- src/unnamed/part_000 ----
Panel_part_000(resp) == Truthy(resp)

Throws_part_000(resp) ==
  /\ Truthy(resp)
  /\ \/ GetThrows(Get(resp, "parsed_data"))
     \/ GetThrows(Get(Get(resp, "parsed_data"), "personal_info"))
     \/ ChildThrows(Get(Get(Get(resp, "parsed_data"), "personal_info"), "name"))

Disabled_part_000(f, l) == FALSE

\* ---- src/unnamed/part_001 ----
Panel_part_001(resp) == Truthy(resp) /\ Truthy(Get(resp, "grading_result"))

\* disabled={!files || loading}
Disabled_part_001(f, l) == ~Truthy(f) \/ l

\* {response.grading_result.section_scores?.<s> || 'N/A'}
SectionChild(resp, s) ==
  Or(OptGet(Get(Get(resp, "grading_result"), "section_scores"), s), Str("N/A"))

OverallChild(resp) == Get(Get(resp, "grading_result"), "overall_score")

HeadingThrows(resp) ==
  \/ ChildThrows(OverallChild(resp))
  \/ \E s \in SectionNames : ChildThrows(SectionChild(resp, s))

\* response.parsed_data?.<k>
Parsed(resp, k) == OptGet(Get(resp, "parsed_data"), k)

PersonalShown(resp) == Truthy(Parsed(resp, "personal_info"))

PersonalThrows(resp) ==
  LET pi == Parsed(resp, "personal_info") IN
  \/ AnyChildThrows(pi, {"name", "email", "phone"})
  \/ \E k \in {"address", "linkedin", "github"} :
       Truthy(Get(pi, k)) /\ ChildThrows(Get(pi, k))

EduThrows(edu) ==
  \/ GetThrows(edu)
  \/ AnyChildThrows(edu, {"institution", "degree", "field_of_study", "year"})
  \/ Truthy(Get(edu, "gpa")) /\ ChildThrows(Get(edu, "gpa"))

ExpThrows(exp) ==
  \/ GetThrows(exp)
  \/ AnyChildThrows(exp, {"position", "company", "duration", "description"})
  \/ /\ ListShown(Get(exp, "key_achievements"))
     /\ MapChildThrows(Get(exp, "key_achievements"))

ProjThrows(proj) ==
  \/ GetThrows(proj)
  \/ AnyChildThrows(proj, {"name", "description"})
  \/ ListShown(Get(proj, "technologies")) /\ Get(proj, "technologies").t # "arr"
  \/ Truthy(Get(proj, "duration")) /\ ChildThrows(Get(proj, "duration"))

\* the callback of .map throws on the element x of the list named kind
ElemThrows(kind, x) ==
  CASE kind = "education" -> EduThrows(x)
    [] kind = "experience" -> ExpThrows(x)
    [] kind = "projects" -> ProjThrows(x)

\* response.parsed_data.<kind>.map(...) throws
MapThrows(v, kind) ==
  v.t # "arr" \/ \E i \in 1..Len(v.e) : ElemThrows(kind, v.e[i])

EducationShown(resp) == ListShown(Parsed(resp, "education"))
ExperienceShown(resp) == ListShown(Parsed(resp, "experience"))
SkillsShown(resp) == ListShown(Parsed(resp, "skills"))
ProjectsShown(resp) == ListShown(Parsed(resp, "projects"))
StrengthsShown(resp) == ListShown(Get(Get(resp, "grading_result"), "strengths"))
TipsShown(resp) == ListShown(Get(Get(resp, "grading_result"), "tips"))
FeedbackShown(resp) == Truthy(Get(Get(resp, "grading_result"), "detailed_feedback"))

Throws_part_001(resp) ==
  /\ Panel_part_001(resp)
  /\ \/ HeadingThrows(resp)
     \/ PersonalShown(resp) /\ PersonalThrows(resp)
     \/ EducationShown(resp) /\ MapThrows(Parsed(resp, "education"), "education")
     \/ ExperienceShown(resp) /\ MapThrows(Parsed(resp, "experience"), "experience")
     \/ SkillsShown(resp) /\ MapChildThrows(Parsed(resp, "skills"))
     \/ ProjectsShown(resp) /\ MapThrows(Parsed(resp, "projects"), "projects")
     \/ StrengthsShown(resp)
          /\ MapChildThrows(Get(Get(resp, "grading_result"), "strengths"))
     \/ TipsShown(resp)
          /\ MapChildThrows(Get(Get(resp, "grading_result"), "tips"))
     \/ FeedbackShown(resp)
          /\ ChildThrows(Get(Get(resp, "grading_result"), "detailed_feedback"))

\* the text in the score slot of the heading
ScoreText_App_jsx(resp) == Text(Get(resp, "score"))
ScoreText_part_000(resp) == ""
ScoreText_part_001(resp) == Text(OverallChild(resp))

\* ---- the revision that runs ----
ScoreText(r, resp) ==
  CASE r = "App.jsx" -> ScoreText_App_jsx(resp)
    [] r = "part_000" -> ScoreText_part_000(resp)
    [] r = "part_001" -> ScoreText_part_001(resp)

RenderThrows(r, resp) ==
  CASE r = "App.jsx" -> Throws_App_jsx(resp)
    [] r = "part_000" -> Throws_part_000(resp)
    [] r = "part_001" -> Throws_part_001(resp)

PanelCondition(r, resp) ==
  CASE r = "App.jsx" -> Panel_App_jsx(resp)
    [] r = "part_000" -> Panel_part_000(resp)
    [] r = "part_001" -> Panel_part_001(resp)

SubmitDisabled(r, f, l) ==
  CASE r = "App.jsx" -> Disabled_App_jsx(f, l)
    [] r = "part_000" -> Disabled_part_000(f, l)
    [] r = "part_001" -> Disabled_part_001(f, l)

(***************************************************************************)
(* State                                                                   *)
(***************************************************************************)
VARIABLES
  rev,        \* the revision of App that the page runs
  env,        \* import.meta.env.VITE_API_URL
  page,       \* "mounted", "crashed" (a render threw), "loadfail" (module threw)
  files,      \* useState(null): the selected file
  response,   \* useState(null): the response data
  loading,    \* useState(false): the loading flag
  inflight,   \* the requests handed to axios.post and not yet settled
  clicks,     \* handleUpload invocations so far; the n-th has id n
  escaped,    \* ids of the handleUpload invocations whose promise rejected
  logged,     \* ids of the invocations that wrote to console.error
  last        \* the handler that ran last, with the state it started from

vars == <<rev, env, page, files, response, loading, inflight, clicks, escaped,
          logged, last>>

\* url = `${import.meta.env.VITE_API_URL}` || `http://localhost:8000`
url(e) == Or(Str(JSString(e)), Str("http://localhost:8000")).s

\* the address handed to axios.post
RequestUrl(r, e) ==
  CASE r = "App.jsx" -> "http://localhost:3000/uploads"
    [] r = "part_000" -> "http://localhost:8000/upload-resume"
    [] r = "part_001" -> url(e) \o "/grade-resume"

\* the multipart field name
FieldName(r) == IF r = "App.jsx" THEN "resume" ELSE "file"

\* formData.append(name, v): a File goes in as a file part, any other value
\* is converted to a string
FormDataAppend(fd, name, v) ==
  fd \o <<[name |-> name, value |-> IF v.t = "file" THEN v ELSE Str(JSString(v))]>>

\* the argument of setFiles in onChange
Picked(r, pick) ==
  IF r = "App.jsx" THEN FileList(pick)
  ELSE IF Len(pick) > 0 THEN pick[1] ELSE Undef

\* the state a handler starts from
Before == [response |-> response, loading |-> loading, n |-> Cardinality(inflight),
           page |-> page]

\* the page after the component has rendered with response data resp
Rendered(resp) == IF RenderThrows(rev, resp) THEN "crashed" ELSE page

\* Only part_001 reads the environment value.
\* part_001 assigns the undeclared name url at module level: module code is
\* strict, so the assignment throws unless the host page declares a global url
Init ==
  /\ rev \in Revisions
  /\ env \in IF rev = "part_001" THEN EnvValues ELSE {Undef}
  /\ page \in IF rev = "part_001" THEN {"mounted", "loadfail"} ELSE {"mounted"}
  /\ files = Null
  /\ response = Null
  /\ loading = FALSE
  /\ inflight = {}
  /\ clicks = 0
  /\ escaped = {}
  /\ logged = {}
  /\ last = [op |-> "mount", id |-> 0, arg |-> Undef,
             prev |-> [response |-> Null, loading |-> FALSE, n |-> 0, page |-> page]]

\* onChange of the file input
onChange(pick) ==
  /\ page = "mounted"
  /\ files' = Picked(rev, pick)
  /\ last' = [op |-> "select", id |-> 0, arg |-> Undef, prev |-> Before]
  /\ UNCHANGED <<rev, env, page, response, loading, inflight, clicks, escaped, logged>>

\* a click on the Upload button: handleUpload up to its await
handleUpload ==
  /\ page = "mounted"
  /\ ~SubmitDisabled(rev, files, loading)
  /\ clicks < MaxSubmits
  /\ clicks' = clicks + 1
  /\ loading' = TRUE
  /\ inflight' = inflight \cup
       {[id |-> clicks + 1, url |-> RequestUrl(rev, env),
         parts |-> FormDataAppend(<<>>, FieldName(rev), files)]}
  /\ last' = [op |-> "submit", id |-> clicks + 1, arg |-> Undef, prev |-> Before]
  /\ UNCHANGED <<rev, env, page, files, response, escaped, logged>>

\* Resolve with setLoading(false) left out of the try block
Resolve_KeepsLoading(req, body) ==
  /\ req \in inflight
  /\ inflight' = inflight \ {req}
  /\ IF page = "mounted"
       THEN /\ response' = body
            /\ page' = Rendered(body)
            /\ UNCHANGED loading
       ELSE UNCHANGED <<loading, response, page>>
  /\ last' = [op |-> "resolve", id |-> req.id, arg |-> body, prev |-> Before]
  /\ UNCHANGED <<rev, env, files, clicks, escaped, logged>>

\* axios.post resolves with res.data = body: the rest of the try block.
\* State updates of a component that is no longer mounted are dropped.
Resolve(req, body) ==
  /\ req \in inflight
  /\ inflight' = inflight \ {req}
  /\ IF page = "mounted"
       THEN /\ loading' = FALSE
            /\ response' = body
            /\ page' = Rendered(body)
       ELSE UNCHANGED <<loading, response, page>>
  /\ last' = [op |-> "resolve", id |-> req.id, arg |-> body, prev |-> Before]
  /\ UNCHANGED <<rev, env, files, clicks, escaped, logged>>

\* axios.post rejects with err: the catch block of the revision
Reject(req, err) ==
  /\ req \in inflight
  /\ inflight' = inflight \ {req}
  /\ CASE rev = "App.jsx" ->
            \* catch(e){ setResponse(err) }: err is not defined, a ReferenceError
            /\ escaped' = escaped \cup {req.id}
            /\ UNCHANGED <<loading, response, page, logged>>
       [] rev = "part_000" ->
            \* catch(err){ setResponse(err) }
            /\ IF page = "mounted"
                 THEN response' = err /\ page' = Rendered(err)
                 ELSE UNCHANGED <<response, page>>
            /\ UNCHANGED <<loading, escaped, logged>>
       [] rev = "part_001" ->
            \* setLoading(false); setResponse(null); console.error(...)
            /\ IF page = "mounted"
                 THEN loading' = FALSE /\ response' = Null /\ page' = Rendered(Null)
                 ELSE UNCHANGED <<loading, response, page>>
            /\ logged' = logged \cup {req.id}
            /\ UNCHANGED escaped
  /\ last' = [op |-> "reject", id |-> req.id, arg |-> err, prev |-> Before]
  /\ UNCHANGED <<rev, env, files, clicks>>

\* the file picker reports a selection
Select == \E pick \in Picks : onChange(pick)

\* a pending request settles, with any body or any error
Fulfilled == \E req \in inflight, body \in Bodies : Resolve(req, body)
Failed == \E req \in inflight, err \in Errors : Reject(req, err)

Next ==
  \/ Select
  \/ handleUpload
  \/ Fulfilled
  \/ Failed

Spec == Init /\ [][Next]_vars

(***************************************************************************)
(* What the page shows                                                     *)
(***************************************************************************)
\* a file has been selected
FileSelected(f) == f.t = "file" \/ (f.t = "filelist" /\ Len(f.l) > 0)
TheFile(f) == IF f.t = "filelist" THEN f.l[1] ELSE f

\* the result panel is on the page
PanelRendered == page = "mounted" /\ PanelCondition(rev, response)

\* the skills, projects or experience sections are on the page
SectionsRendered ==
  /\ rev = "part_001"
  /\ PanelRendered
  /\ SkillsShown(response) \/ ProjectsShown(response) \/ ExperienceShown(response)

OnlyOverall72 == ObjOf([grading_result |-> ObjOf([overall_score |-> Num(72)])])

\* the handler that ran last settled a request of a mounted form
Settled(op) == last.op = op /\ last.prev.page = "mounted"

(***************************************************************************)
(* Claims                                                                  *)
(***************************************************************************)

\* C1: whenever the form is on the page, the submit control is disabled if
\* no file is selected or the loading flag is true.
C1_SubmitDisabled ==
  page = "mounted" =>
    ((~FileSelected(files) \/ loading) => SubmitDisabled(rev, files, loading))

\* C1 in part_001 alone
C1_part_001 == rev = "part_001" => C1_SubmitDisabled

\* C2: at most one request is in flight at any time.
C2_OneInFlight == Cardinality(inflight) <= 1

\* C2 in part_001 alone
C2_part_001 == rev = "part_001" => C2_OneInFlight

\* C3: when a request fails, the loading flag becomes false and the submit
\* operation does not reject.
C3_FailureClearsLoading ==
  Settled("reject") => (loading = FALSE /\ last.id \notin escaped)

\* C3 in part_001 alone
C3_part_001 == rev = "part_001" => C3_FailureClearsLoading

\* C4: when a request succeeds with body B, the response data is B itself and
\* the loading flag is false, whatever the response data was before.
C4_SuccessStoresBody ==
  Settled("resolve") => (response = last.arg /\ loading = FALSE)

C4_Witness ==
  /\ Settled("resolve")
  /\ last.arg.t = "obj"
  /\ last.prev.response.t = "obj"
  /\ last.prev.response # last.arg
  /\ last.prev.loading
  /\ response = last.arg
  /\ loading = FALSE

\* C5: after a failed request the response data is what it was before the
\* submit, or is cleared; it never holds the error.
C5_FailureKeepsOrClears ==
  Settled("reject") => response \in {last.prev.response, Null}

\* C5 in part_001 and App.jsx
C5_not_part_000 == rev # "part_000" => C5_FailureKeepsOrClears

\* C6: a submit with a selected file issues exactly one request, whose
\* multipart body has exactly one part, the selected file itself under the
\* field name of the revision.
C6_OneFilePart ==
  (last.op = "submit" /\ FileSelected(files)) =>
    /\ Cardinality(inflight) = last.prev.n + 1
    /\ \E req \in inflight :
         /\ req.id = last.id
         /\ Len(req.parts) = 1
         /\ req.parts[1].name = FieldName(rev)
         /\ req.parts[1].value = TheFile(files)

\* C6 in part_000 and part_001
C6_not_App_jsx == rev # "App.jsx" => C6_OneFilePart

\* C7: in the revision that reads the environment, the request goes to the
\* environment value when one is set, to http://localhost:8000 when none is
\* set, followed by the fixed path.
C7_BaseUrl ==
  rev = "part_001" =>
    \A req \in inflight :
      /\ (env.t = "str" /\ env.s # "") => req.url = env.s \o "/grade-resume"
      /\ env = Undef => req.url = "http://localhost:8000/grade-resume"

\* C7 when the environment value is set
C7_when_set ==
  (rev = "part_001" /\ env # Undef) =>
    \A req \in inflight :
      req.url = (IF env.s # "" THEN env.s ELSE "http://localhost:8000") \o "/grade-resume"

\* C8: the result panel is on the page if and only if the response data is
\* present.
C8_PanelIffResponse ==
  page = "mounted" => (PanelRendered <=> response # Null)

\* C8, one direction: a panel on the page means response data is present
C8_PanelOnlyIfResponse == PanelRendered => response # Null

\* C9: rendering a response in which members are absent never throws; with
\* only grading_result.overall_score = 72 the page shows 72 and none of the
\* skills, projects and experience sections.
C9_RenderTolerant ==
  /\ Settled("resolve") => page = "mounted"
  /\ (Settled("resolve") /\ last.arg = OnlyOverall72) =>
       /\ PanelRendered
       /\ ScoreText(rev, response) = "72"
       /\ ~SectionsRendered

\* C9 in part_001 alone
C9_part_001 == rev = "part_001" => C9_RenderTolerant

\* the text the claim expects in a scalar slot for the member value v
ExpectedScalar(v) == IF v = Undef THEN "N/A" ELSE ToString(v.n)

\* C10: in the result panel, a score slot shows "N/A" exactly when its
\* member is missing, and the value of the member otherwise, 0 included.
C10_PlaceholderIffMissing ==
  (rev = "part_001" /\ PanelRendered) =>
    LET gr == Get(response, "grading_result") IN
    /\ Text(OverallChild(response)) = ExpectedScalar(Get(gr, "overall_score"))
    /\ \A s \in SectionNames :
         Text(SectionChild(response, s)) =
           ExpectedScalar(OptGet(Get(gr, "section_scores"), s))

\* C10 for the section scores that are not 0
C10_nonzero_sections ==
  (rev = "part_001" /\ PanelRendered) =>
    LET gr == Get(response, "grading_result") IN
    \A s \in SectionNames :
      LET v == OptGet(Get(gr, "section_scores"), s) IN
      v # Num(0) => Text(SectionChild(response, s)) = ExpectedScalar(v)

====
